---- MODULE Spec2Model ----
(***************************************************************************)
(* Model of cognite/experimental/_relationships_query.py:                  *)
(* RelationshipsQuery.query, its Fetcher registry, the endpoint filters    *)
(* and the concurrent per-type fetch (utils._concurrency                   *)
(* .execute_tasks_concurrently with max_workers = 5).                      *)
(***************************************************************************)
EXTENDS Integers, Sequences, FiniteSets, TLC

VARIABLES
    env,                 \* what the caller and the project can do (environment)
    self,                \* the RelationshipsQuery object: client, fetchers
    queryNo,             \* number of calls of query on self so far
    previous,            \* the join index the previous query ended with
    pc,                  \* position of the generator body of query
    args,                \* sources_filter / targets_filter as passed to query
    sources_filter,      \* local of query after line 133
    targets_filter,      \* local of query after line 134
    listing,             \* what client.relationships.list did (environment)
    relations,           \* local of query, line 136
    tasks,               \* the (type, external_ids) tuples of line 160
    taskState,           \* per task: "queued", "running", "done", "failed"
    taskResult,          \* per task: the list fetch_per_type returned
    taskError,           \* per task: the exception it raised
    collected,           \* number of futures whose result() has returned
    results,             \* tasks_summary.results
    exceptions,          \* tasks_summary.exceptions
    fetchCalls,          \* log of the fetch_per_type invocations
    retrieveCalls,       \* log of the client retrieve_multiple invocations
    resources_by_ext_id, \* the join index, line 166
    idx,                 \* position of the loop of line 171 in relations
    output,              \* what the generator has yielded so far
    error                \* the exception query has raised

vars == <<env, self, queryNo, previous, pc, args, sources_filter, targets_filter, listing, relations, tasks,
          taskState, taskResult, taskError, collected, results, exceptions,
          fetchCalls, retrieveCalls, resources_by_ext_id, idx, output, error>>

-----------------------------------------------------------------------------
(* Bounds and program constants *)

\* longest edge list the listing returns
MaxEdges == 2

\* most calls of query on one resolver
MaxQueries == 2

\* max_workers of execute_tasks_concurrently
MaxWorkers == 5

-----------------------------------------------------------------------------
(* Data *)

None == [kind |-> "None"]

ResourceRef(type, external_id) == [type |-> type, external_id |-> external_id]

\* keys of self.fetchers, with has_ignore_unknown_ids
Fetchers ==
    [asset |-> [has_ignore_unknown_ids |-> TRUE],
     timeSeries |-> [has_ignore_unknown_ids |-> TRUE],
     file |-> [has_ignore_unknown_ids |-> FALSE],
     event |-> [has_ignore_unknown_ids |-> TRUE],
     sequence |-> [has_ignore_unknown_ids |-> FALSE]]

Relationship(eid, st, sid, tt, tid) ==
    [external_id |-> eid, source_type |-> st, source_external_id |-> sid,
     target_type |-> tt, target_external_id |-> tid]

\* the relationships the listing can return
EdgePool ==
    { Relationship("r1", "asset", "X", "timeSeries", "Y"),
      Relationship("r2", "asset", "X", "asset", "Y"),
      Relationship("r3", "timeSeries", "X", "asset", "X"),
      Relationship("r4", "file", "X", "asset", "Y"),
      Relationship("r5", "asset", "Y", "model3d", "Z") }

Labels(seq) == [isNone |-> FALSE, items |-> seq]
NoLabels == [isNone |-> TRUE, items |-> <<>>]
Label(l) == [externalId |-> l]

\* the labels the resources of the catalog carry
CatalogLabels(type, external_id) ==
    CASE type = "asset" /\ external_id = "X" -> Labels(<<Label("Pump")>>)
      [] type = "asset" /\ external_id = "Y" -> Labels(<<Label("Valve")>>)
      [] type = "timeSeries" /\ external_id = "X" -> NoLabels
      [] type = "timeSeries" /\ external_id = "Y" ->
             Labels(<<Label("Valve"), Label("Pump")>>)
      [] OTHER -> Labels(<<>>)

\* the values of the sources_filter / targets_filter arguments
FilterArgs == { None, [kind |-> "RelationshipFilter", labels |-> {"Pump"}] }

Range(s) == { s[i] : i \in DOMAIN s }

RECURSIVE SeqsOver(_, _)
\* the sequences of at most n distinct elements of S
SeqsOver(S, n) ==
    IF n = 0 THEN { <<>> }
    ELSE { <<>> } \cup
         UNION { { <<x>> \o s : s \in SeqsOver(S \ {x}, n - 1) } : x \in S }

RECURSIVE Orders(_)
\* the orders in which a set can be iterated
Orders(S) ==
    IF S = {} THEN { <<>> }
    ELSE UNION { { <<x>> \o s : s \in Orders(S \ {x}) } : x \in S }

-----------------------------------------------------------------------------
(* Endpoint filters *)

RelationshipFilterAll == [kind |-> "RelationshipFilterAll"]

RelationshipFilterBase == [kind |-> "RelationshipFilterBase"]

\* an omitted filter left as the base class, whose is_inside is False
DefaultFilterBase(f) == IF f /= None THEN f ELSE RelationshipFilterBase

\* lines 133-134: an omitted filter becomes RelationshipFilterAll()
DefaultFilter(f) == IF f /= None THEN f ELSE RelationshipFilterAll

\* line 26: [label["externalId"] for label in resource.labels]
LabelsDecoded(labels) == [i \in DOMAIN labels |-> labels[i].externalId]

RECURSIVE AnyIn(_, _)
\* line 27: any(label in accepted for label in decoded), scanned left to right
AnyIn(decoded, accepted) ==
    IF decoded = <<>> THEN FALSE
    ELSE IF Head(decoded) \in accepted THEN TRUE
    ELSE AnyIn(Tail(decoded), accepted)

\* is_inside with the else branch of line 29 returning True
LabelsIsInsideAbsentAccepted(filter, resource) ==
    IF ~resource.labels.isNone
    THEN AnyIn(LabelsDecoded(resource.labels.items), filter.labels)
    ELSE TRUE

\* RelationshipFilter.is_inside, lines 24-29
LabelsIsInside(filter, resource) ==
    IF ~resource.labels.isNone
    THEN AnyIn(LabelsDecoded(resource.labels.items), filter.labels)
    ELSE FALSE

\* is_inside, dispatched on the class of the filter
IsInside(filter, resource) ==
    CASE filter.kind = "RelationshipFilterAll" -> TRUE
      [] filter.kind = "RelationshipFilter" -> LabelsIsInside(filter, resource)
      [] OTHER -> FALSE

-----------------------------------------------------------------------------
(* Endpoint references and their grouping by type *)

SourceRef(rel) == ResourceRef(rel.source_type, rel.source_external_id)
TargetRef(rel) == ResourceRef(rel.target_type, rel.target_external_id)

\* lines 147-148: the list handed to set()
ResourceRefsList(rels) ==
    [i \in DOMAIN rels |-> SourceRef(rels[i])] \o
    [i \in DOMAIN rels |-> TargetRef(rels[i])]

\* the list of lines 147-148 iterated as it is, without set()
ResourceRefOrdersWithoutSet(rels) == { ResourceRefsList(rels) }

\* lines 146-149: set(...) drops the duplicates; its iteration order is any
ResourceRefOrders(rels) == Orders(Range(ResourceRefsList(rels)))

RECURSIVE AppendToGroup(_, _)
\* resources_by_type[res.type].append(res.external_id) on an insertion-ordered dict
AppendToGroup(groups, ref) ==
    IF groups = <<>>
    THEN << [type |-> ref.type, external_ids |-> <<ref.external_id>>] >>
    ELSE IF Head(groups).type = ref.type
    THEN << [type |-> ref.type,
             external_ids |-> Append(Head(groups).external_ids, ref.external_id)] >>
         \o Tail(groups)
    ELSE << Head(groups) >> \o AppendToGroup(Tail(groups), ref)

RECURSIVE GroupByTypeEveryFetcher(_, _)
\* the grouping that also keeps a group, possibly empty, for the event fetcher
GroupByTypeEveryFetcher(groups, refs) ==
    IF refs = <<>>
    THEN IF \E i \in DOMAIN groups : groups[i].type = "event" THEN groups
         ELSE Append(groups, [type |-> "event", external_ids |-> <<>>])
    ELSE GroupByTypeEveryFetcher(AppendToGroup(groups, Head(refs)), Tail(refs))

RECURSIVE GroupByType(_, _)
\* lines 151-153, then resources_by_type.items() of line 160
GroupByType(groups, refs) ==
    IF refs = <<>> THEN groups
    ELSE GroupByType(AppendToGroup(groups, Head(refs)), Tail(refs))

-----------------------------------------------------------------------------
(* The fetch of one type *)

Resource(type, external_id, n) ==
    [class |-> type, external_id |-> external_id,
     labels |-> CatalogLabels(type, external_id), inst |-> <<queryNo, n>>]

ListingError == [kind |-> "ListingFailure", type |-> "relationship"]
KeyError(type) == [kind |-> "KeyError", type |-> type]
NotFoundError(type) == [kind |-> "CogniteNotFoundError", type |-> type]
ForbiddenError(type) == [kind |-> "CogniteAPIError", type |-> type]

Returned(value) == [failed |-> FALSE, value |-> value, exception |-> None]
Raised(exception) == [failed |-> TRUE, value |-> <<>>, exception |-> exception]

\* line 156: self.fetchers[type].retrieve_multiple is the instance attribute set
\* at line 47, the client's bound method; the method of lines 49-53 is shadowed
\* by it and never runs, so ignore_unknown_ids keeps the client's default
FetcherRetrieveMultiple(type, external_ids) ==
    [type |-> type, external_ids |-> external_ids, ignore_unknown_ids |-> FALSE]

\* client.<type>.retrieve_multiple(external_ids, ignore_unknown_ids) when the
\* ids in known exist: the known ones in request order, or a not-found failure
ClientRetrieveMultiple(call, known) ==
    LET ids == call.external_ids
        found == SelectSeq(ids, LAMBDA x : x \in known)
    IN  IF ~call.ignore_unknown_ids /\ found /= ids
        THEN Raised(NotFoundError(call.type))
        ELSE Returned([i \in DOMAIN found |-> Resource(call.type, found[i], i)])

\* what the client can answer to a retrieval: in a reliable project every id
\* asked for exists and is readable; otherwise any of them may be unknown and
\* the call may be refused
ClientAnswers(call) ==
    IF env.reliable
    THEN { ClientRetrieveMultiple(call, Range(call.external_ids)) }
    ELSE { ClientRetrieveMultiple(call, known) :
             known \in SUBSET Range(call.external_ids) }
         \cup { Raised(ForbiddenError(call.type)) }

\* fetch_per_type returning nothing for a type that has no fetcher
FetchPerTypeLenient(type, external_ids) ==
    IF type \notin DOMAIN self.fetchers
    THEN { Returned(<<>>) }
    ELSE LET call == FetcherRetrieveMultiple(type, external_ids)
             answers == ClientAnswers(call)
         IN  { IF a.failed THEN a
               ELSE Returned([i \in DOMAIN a.value |-> <<type, a.value[i]>>]) :
               a \in answers }

\* lines 155-157: what a run of fetch_per_type(type, external_ids) can end in
FetchPerType(type, external_ids) ==
    IF type \notin DOMAIN self.fetchers
    THEN { Raised(KeyError(type)) }
    ELSE LET call == FetcherRetrieveMultiple(type, external_ids)
             answers == ClientAnswers(call)
         IN  { IF a.failed THEN a
               ELSE Returned([i \in DOMAIN a.value |-> <<type, a.value[i]>>]) :
               a \in answers }

-----------------------------------------------------------------------------
(* The join *)

RECURSIVE Join(_)
\* TasksSummary.joined_results: the result lists, concatenated in task order
Join(lists) == IF lists = <<>> THEN <<>> ELSE Head(lists) \o Join(Tail(lists))

RECURSIVE JoinIndexByExternalId(_, _)
\* the index finding a resource by its external id alone, whatever its type
JoinIndexByExternalId(index, items) ==
    IF items = <<>> THEN index
    ELSE LET ref == ResourceRef(Head(items)[1], Head(items)[2].external_id)
             res == Head(items)[2]
         IN  JoinIndexByExternalId(
                 [r \in DOMAIN index \cup {ref} |->
                     IF r.external_id = ref.external_id THEN res ELSE index[r]],
                 Tail(items))

RECURSIVE JoinIndex(_, _)
\* lines 166-169: a later item of the same key replaces an earlier one
JoinIndex(index, items) ==
    IF items = <<>> THEN index
    ELSE LET ref == ResourceRef(Head(items)[1], Head(items)[2].external_id)
             res == Head(items)[2]
         IN  JoinIndex([r \in DOMAIN index \cup {ref} |->
                           IF r = ref THEN res ELSE index[r]],
                       Tail(items))

EmptyIndex == [r \in {} |-> None]

\* the index starting from what an earlier query resolved
NewIndexFromEarlier(earlier) == earlier

\* line 166: the index starts empty in every query
NewIndex(earlier) == EmptyIndex

\* resources_by_ext_id.get(ref)
Get(index, ref) == IF ref \in DOMAIN index THEN index[ref] ELSE None

\* the condition of lines 176-181 without its last conjunct
PassesWithoutTargetFilter(index, sf, tf, rel) ==
    LET source_resource == Get(index, SourceRef(rel))
        target_resource == Get(index, TargetRef(rel))
    IN  /\ source_resource /= None
        /\ IsInside(sf, source_resource)
        /\ target_resource /= None

\* lines 172-181: the condition under which the edge is yielded
Passes(index, sf, tf, rel) ==
    LET source_resource == Get(index, SourceRef(rel))
        target_resource == Get(index, TargetRef(rel))
    IN  /\ source_resource /= None
        /\ IsInside(sf, source_resource)
        /\ target_resource /= None
        /\ IsInside(tf, target_resource)

\* the constructor storing a copy of the target resource
RelationshipWithResourceCopied(relationship, source_resource, target_resource) ==
    [relationship |-> relationship, source_resource |-> source_resource,
     target_resource |-> [target_resource EXCEPT !.inst = <<@[1], @[2] + 100>>]]

\* lines 37-41
RelationshipWithResource(relationship, source_resource, target_resource) ==
    [relationship |-> relationship, source_resource |-> source_resource,
     target_resource |-> target_resource]

\* the list visited back to front
IterationOrderReversed(rels) == [k \in DOMAIN rels |-> rels[Len(rels) + 1 - k]]

\* line 171: for rel in relations visits the list front to back
IterationOrder(rels) == rels

\* the positions the loop has still to visit, in order
RemainingPositions(rels, from) == [k \in 1..(Len(rels) - from + 1) |-> from + k - 1]

\* lines 171-182: the position of the next edge the loop yields, 0 when the
\* loop runs to its end
NextYield(rels, from, index, sf, tf) ==
    LET rest == SelectSeq(RemainingPositions(rels, from),
                          LAMBDA k : Passes(index, sf, tf, rels[k]))
    IN  IF rest = <<>> THEN 0 ELSE Head(rest)

\* line 163 never taking the branch
HasExceptionsIgnored(excs) == FALSE

\* line 163
HasExceptions(excs) == excs /= <<>>

\* line 164 raising the last exception of the list
RaisedExceptionLast(excs) == excs[Len(excs)]

\* line 164
RaisedException(excs) == excs[1]

-----------------------------------------------------------------------------
(* The run of one query *)

\* the relationships of a project that is queried more than once
CallPool ==
    { Relationship("r1", "asset", "X", "timeSeries", "Y"),
      Relationship("r3", "timeSeries", "X", "asset", "X") }

\* the relationships of a project with one edge between registered types,
\* one from a file and one to an unregistered type
LivePool == { e \in EdgePool : e.external_id \in { "r1", "r4", "r5" } }

\* listings of a project whose relationships have six endpoint types between
\* them, one more than the pool has workers and one of them not in
\* self.fetchers
WideListings ==
    { << Relationship("w1", "asset", "X", "timeSeries", "Y"),
         Relationship("w2", "file", "X", "event", "Y"),
         Relationship("w3", "sequence", "X", "model3d", "Z") >>,
      << Relationship("w1", "asset", "X", "timeSeries", "Y"),
         Relationship("w2", "file", "X", "event", "Y") >> }

\* the edge lists client.relationships.list can return in a project
Listings(project) ==
    CASE project = "EdgePool" -> SeqsOver(EdgePool, MaxEdges)
      [] project = "CallPool" -> SeqsOver(CallPool, MaxEdges)
      [] project = "LivePool" -> SeqsOver(LivePool, MaxEdges)
      [] project = "Wide" -> WideListings

\* what client.relationships.list can do
ListingOutcomes ==
    { Raised(ListingError) } \cup
    { Returned(rels) : rels \in Listings(env.project) }

\* the exception of the listing swallowed
ListingRaisesSwallowed(outcome) == FALSE

\* line 136: an exception of the listing leaves the generator
ListingRaises(outcome) == outcome.failed

\* the variables of the resolver and its surroundings that a run leaves alone
resolver == <<env, self, queryNo, previous>>

\* RelationshipsQuery.__init__, lines 57-65
NewResolver == [client |-> "client", fetchers |-> Fetchers]

\* the state after RelationshipsQuery(client), before any call of query
InitWith(environment) ==
    /\ env = environment
    /\ self = NewResolver
    /\ queryNo = 0
    /\ previous = EmptyIndex
    /\ pc = "idle"
    /\ args = [sources_filter |-> None, targets_filter |-> None]
    /\ sources_filter = None
    /\ targets_filter = None
    /\ listing = None
    /\ relations = <<>>
    /\ tasks = <<>>
    /\ taskState = <<>>
    /\ taskResult = <<>>
    /\ taskError = <<>>
    /\ collected = 0
    /\ results = <<>>
    /\ exceptions = <<>>
    /\ fetchCalls = <<>>
    /\ retrieveCalls = <<>>
    /\ resources_by_ext_id = EmptyIndex
    /\ idx = 0
    /\ output = <<>>
    /\ error = None

Init ==
    InitWith([project |-> "EdgePool", filters |-> FilterArgs,
              reliable |-> FALSE, queries |-> 1])

InitWide ==
    InitWith([project |-> "Wide", filters |-> { None },
              reliable |-> TRUE, queries |-> 1])

InitLive ==
    InitWith([project |-> "LivePool", filters |-> FilterArgs,
              reliable |-> FALSE, queries |-> 1])

InitCalls ==
    InitWith([project |-> "CallPool", filters |-> FilterArgs,
              reliable |-> FALSE, queries |-> MaxQueries])

\* a call of query binds the arguments to a new generator frame; an earlier
\* generator, drained or failed, is gone with its locals
BindArguments ==
    /\ pc \in {"idle", "done", "raised"}
    /\ queryNo < env.queries
    /\ queryNo' = queryNo + 1
    /\ previous' = resources_by_ext_id
    /\ args' \in [sources_filter : env.filters, targets_filter : env.filters]
    /\ sources_filter' = args'.sources_filter
    /\ targets_filter' = args'.targets_filter
    /\ relations' = <<>>
    /\ tasks' = <<>>
    /\ taskState' = <<>>
    /\ taskResult' = <<>>
    /\ taskError' = <<>>
    /\ collected' = 0
    /\ results' = <<>>
    /\ exceptions' = <<>>
    /\ fetchCalls' = <<>>
    /\ retrieveCalls' = <<>>
    /\ resources_by_ext_id' = EmptyIndex
    /\ idx' = 0
    /\ output' = <<>>
    /\ error' = None
    /\ UNCHANGED <<env, self>>

\* query as an ordinary function whose call already lists the relationships
QueryEager ==
    /\ BindArguments
    /\ pc' = "created"
    /\ listing' \in ListingOutcomes

\* lines 67-78 and 182: query holds a yield, so the call runs none of its body
\* and returns the generator
Query ==
    /\ BindArguments
    /\ pc' = "created"
    /\ listing' = None

\* the first next() on the generator, lines 133-160 up to the submission of
\* the tasks to the pool
ListRelations ==
    /\ pc = "created"
    /\ sources_filter' = DefaultFilter(args.sources_filter)
    /\ targets_filter' = DefaultFilter(args.targets_filter)
    /\ \E outcome \in ListingOutcomes :
         /\ listing' = outcome
         /\ IF ListingRaises(outcome)
            THEN /\ pc' = "raised"
                 /\ error' = outcome.exception
                 /\ UNCHANGED <<relations, tasks, taskState, taskResult, taskError>>
            ELSE /\ relations' = outcome.value
                 /\ \E order \in ResourceRefOrders(outcome.value) :
                      tasks' = GroupByType(<<>>, order)
                 /\ taskState' = [i \in DOMAIN tasks' |-> "queued"]
                 /\ taskResult' = [i \in DOMAIN tasks' |-> <<>>]
                 /\ taskError' = [i \in DOMAIN tasks' |-> None]
                 /\ pc' = "fetching"
                 /\ UNCHANGED error
    /\ UNCHANGED <<args, collected, results, exceptions, fetchCalls, retrieveCalls,
                   resources_by_ext_id, idx, output>>
    /\ UNCHANGED resolver

Running == { i \in DOMAIN tasks : taskState[i] = "running" }

\* the pool starts a queued task whatever the outcome of the others
WorkerFreeUnlessFailureSeen == Cardinality(Running) < MaxWorkers /\ exceptions = <<>>

\* the pool runs a task on any number of threads
WorkerFreeAlways == TRUE

\* ThreadPoolExecutor(max_workers): a thread of the pool is idle
WorkerFree == Cardinality(Running) < MaxWorkers

\* a worker of the pool takes the oldest queued task and enters fetch_per_type
StartTask(i) ==
    /\ pc = "fetching"
    /\ taskState[i] = "queued"
    /\ \A j \in 1..(i - 1) : taskState[j] /= "queued"
    /\ WorkerFree
    /\ taskState' = [taskState EXCEPT ![i] = "running"]
    /\ fetchCalls' = Append(fetchCalls, tasks[i])
    /\ retrieveCalls' =
         IF tasks[i].type \in DOMAIN Fetchers
         THEN Append(retrieveCalls,
                     FetcherRetrieveMultiple(tasks[i].type, tasks[i].external_ids))
         ELSE retrieveCalls
    /\ UNCHANGED <<pc, args, sources_filter, targets_filter, listing, relations,
                   tasks, taskResult, taskError, collected, results, exceptions,
                   resources_by_ext_id, idx, output, error>>
    /\ UNCHANGED resolver

\* fetch_per_type returns or raises in its worker
FinishTask(i) ==
    /\ pc = "fetching"
    /\ taskState[i] = "running"
    /\ \E outcome \in FetchPerType(tasks[i].type, tasks[i].external_ids) :
         /\ taskState' = [taskState EXCEPT
                            ![i] = IF outcome.failed THEN "failed" ELSE "done"]
         /\ taskResult' = [taskResult EXCEPT ![i] = outcome.value]
         /\ taskError' = [taskError EXCEPT ![i] = outcome.exception]
    /\ UNCHANGED <<pc, args, sources_filter, targets_filter, listing, relations,
                   tasks, collected, results, exceptions, fetchCalls,
                   retrieveCalls, resources_by_ext_id, idx, output, error>>
    /\ UNCHANGED resolver

\* result() returning at once, for a future that is still queued or running
FutureSettledNoWait(i) == TRUE

\* result() returning only for a future that has a result
FutureSettledOnlyDone(i) == taskState[i] = "done"

\* future.result() returns or raises once the task has returned or raised
FutureSettled(i) == taskState[i] \in {"done", "failed"}

\* execute_tasks_concurrently takes the outcome of the next future, in
\* submission order, once that task has settled
Collect ==
    /\ pc = "fetching"
    /\ collected < Len(tasks)
    /\ FutureSettled(collected + 1)
    /\ collected' = collected + 1
    /\ IF taskState[collected + 1] = "failed"
       THEN /\ exceptions' = Append(exceptions, taskError[collected + 1])
            /\ UNCHANGED results
       ELSE /\ results' = Append(results, taskResult[collected + 1])
            /\ UNCHANGED exceptions
    /\ UNCHANGED <<pc, args, sources_filter, targets_filter, listing, relations,
                   tasks, taskState, taskResult, taskError, fetchCalls,
                   retrieveCalls, resources_by_ext_id, idx, output, error>>
    /\ UNCHANGED resolver

\* execute_tasks_concurrently has returned: lines 163-169
JoinResults ==
    /\ pc = "fetching"
    /\ collected = Len(tasks)
    /\ IF HasExceptions(exceptions)
       THEN /\ pc' = "raised"
            /\ error' = RaisedException(exceptions)
            /\ UNCHANGED <<resources_by_ext_id, idx>>
       ELSE /\ resources_by_ext_id' = JoinIndex(NewIndex(previous), Join(results))
            /\ idx' = 1
            /\ pc' = "emitting"
            /\ UNCHANGED error
    /\ UNCHANGED <<args, sources_filter, targets_filter, listing, relations, tasks,
                   taskState, taskResult, taskError, collected, results,
                   exceptions, fetchCalls, retrieveCalls, output>>
    /\ UNCHANGED resolver

\* the loop of lines 171-182 runs to its next yield, or to the end
Advance ==
    /\ pc = "emitting"
    /\ LET visited == IterationOrder(relations)
           k == NextYield(visited, idx, resources_by_ext_id,
                          sources_filter, targets_filter)
       IN  IF k = 0
           THEN /\ pc' = "done"
                /\ idx' = Len(relations) + 1
                /\ UNCHANGED output
           ELSE /\ output' = Append(output,
                       RelationshipWithResource(
                           visited[k],
                           Get(resources_by_ext_id, SourceRef(visited[k])),
                           Get(resources_by_ext_id, TargetRef(visited[k]))))
                /\ idx' = k + 1
                /\ UNCHANGED pc
    /\ UNCHANGED <<args, sources_filter, targets_filter, listing, relations, tasks,
                   taskState, taskResult, taskError, collected, results,
                   exceptions, fetchCalls, retrieveCalls, resources_by_ext_id,
                   error>>
    /\ UNCHANGED resolver

Next ==
    \/ Query
    \/ ListRelations
    \/ \E i \in DOMAIN tasks : StartTask(i)
    \/ \E i \in DOMAIN tasks : FinishTask(i)
    \/ Collect
    \/ JoinResults
    \/ Advance

Spec == Init /\ [][Next]_vars

\* the runs of one query in which the caller keeps advancing the generator,
\* every collaborator call returns or raises, and the threads of the pool run
SpecLive == InitLive /\ [][Next]_vars /\ WF_vars(Next)

\* the runs of several queries, one after the other, on one resolver
SpecCalls == InitCalls /\ [][Next]_vars

\* the runs of one query against the project with six endpoint types
SpecWide == InitWide /\ [][Next]_vars

-----------------------------------------------------------------------------
(* Properties *)

Settled == { i \in DOMAIN tasks : taskState[i] \in {"done", "failed"} }
Failed == { i \in DOMAIN tasks : taskState[i] = "failed" }

\* the resources the fetch tasks returned for a ref
Fetched(ref) ==
    UNION { { taskResult[i][n][2] :
                n \in { m \in DOMAIN taskResult[i] :
                          /\ taskResult[i][m][1] = ref.type
                          /\ taskResult[i][m][2].external_id = ref.external_id } } :
            i \in { j \in DOMAIN tasks : taskState[j] = "done" } }

Emitted(rel) == \E j \in DOMAIN output : output[j].relationship = rel

OutputEdges == [j \in DOMAIN output |-> output[j].relationship]

\* the edge has both endpoints among the fetch results and both filters accept
ResolvedAndAccepted(rel) ==
    \E s \in Fetched(SourceRef(rel)), t \in Fetched(TargetRef(rel)) :
        IsInside(sources_filter, s) /\ IsInside(targets_filter, t)

\* C1: when no fetch fails, an edge is in the output of the drained query if
\* and only if both its refs came back from the fetches and both filters
\* accept the resources; any other edge is dropped without an error, and no
\* edge is yielded earlier that does not satisfy this.
C1_JoinCorrectness ==
    /\ pc \in {"emitting", "done"} =>
         /\ error = None
         /\ \A j \in DOMAIN output : ResolvedAndAccepted(output[j].relationship)
    /\ pc = "done" =>
         \A k \in DOMAIN relations :
            Emitted(relations[k]) <=> ResolvedAndAccepted(relations[k])

C1_Witness ==
    /\ pc = "done"
    /\ error = None
    /\ \E k \in DOMAIN relations : Emitted(relations[k])
    /\ \E k \in DOMAIN relations : ~Emitted(relations[k])

\* C2: in a run where a fetch task has failed nothing is ever yielded: the
\* query is still fetching or has raised the failure of a task, also when
\* other tasks returned resources.
C2_FailureBeforeAnyYield ==
    Failed /= {} =>
        /\ output = <<>>
        /\ pc \in {"fetching", "raised"}
        /\ pc = "raised" => error \in { taskError[i] : i \in Failed }

C2_Witness ==
    /\ pc = "raised"
    /\ Failed /= {}
    /\ \E i \in DOMAIN tasks : taskState[i] = "done" /\ taskResult[i] /= <<>>


Tolerant(type) == type \in DOMAIN Fetchers /\ Fetchers[type].has_ignore_unknown_ids

\* C3: for a type whose registry flag is has_ignore_unknown_ids (asset,
\* timeSeries, event) the batch retrieval is called in ignore-unknown mode,
\* so no fetch of such a type fails on an unknown external id.
C3_TolerantTypesIgnoreUnknownIds ==
    /\ \A n \in DOMAIN retrieveCalls :
          Tolerant(retrieveCalls[n].type) => retrieveCalls[n].ignore_unknown_ids
    /\ \A i \in DOMAIN tasks :
          Tolerant(tasks[i].type) => taskError[i] /= NotFoundError(tasks[i].type)

EndpointRefs == Range(ResourceRefsList(relations))
EndpointTypes == { ref.type : ref \in EndpointRefs }
IdsOfType(type) == { ref.external_id : ref \in { r \in EndpointRefs : r.type = type } }
CallsOfType(type) == { n \in DOMAIN fetchCalls : fetchCalls[n].type = type }
NoDuplicates(seq) == \A a, b \in DOMAIN seq : a /= b => seq[a] /= seq[b]

\* C4: never more than one fetch call per type and none for a type that is
\* no endpoint type; once the fetch phase is over, exactly one call for every
\* endpoint type, whose ids are the distinct external ids of that type over
\* both endpoints of all listed edges, each once.
C4_OneFetchPerTypeDistinctIds ==
    /\ \A n \in DOMAIN fetchCalls :
          /\ fetchCalls[n].type \in EndpointTypes
          /\ Cardinality(CallsOfType(fetchCalls[n].type)) = 1
          /\ NoDuplicates(fetchCalls[n].external_ids)
          /\ Range(fetchCalls[n].external_ids) = IdsOfType(fetchCalls[n].type)
    /\ (pc \in {"emitting", "done"} \/ (pc = "raised" /\ error /= ListingError)) =>
          \A type \in EndpointTypes : Cardinality(CallsOfType(type)) = 1

\* asset X is the source of one listed edge and the target of another
C4_Witness ==
    /\ pc = "done"
    /\ \E k, l \in DOMAIN relations :
          k /= l /\ SourceRef(relations[k]) = TargetRef(relations[l])
    /\ \E n \in DOMAIN fetchCalls : Len(fetchCalls[n].external_ids) = 2

RECURSIVE IsSubsequence(_, _)
IsSubsequence(a, b) ==
    IF a = <<>> THEN TRUE
    ELSE IF b = <<>> THEN FALSE
    ELSE IF Head(a) = Head(b) THEN IsSubsequence(Tail(a), Tail(b))
    ELSE IsSubsequence(a, Tail(b))

\* C5: the edges yielded so far are, in their order, a subsequence of the
\* listed edges, in every state and so for every dispatch and completion order.
C5_OutputIsSubsequenceOfListing == IsSubsequence(OutputEdges, relations)

\* two edges yielded although the task of the second edge's type came first
C5_Witness ==
    /\ pc = "done"
    /\ Len(output) = 2
    /\ tasks[1].type /= relations[1].source_type

ListingFailed == listing /= None /\ listing.failed

\* C6: when the listing call fails, the query has raised that failure, no
\* fetch task was created or run and nothing is yielded.
C6_ListingFailureStopsTheQuery ==
    ListingFailed =>
        /\ pc = "raised"
        /\ error = listing.exception
        /\ tasks = <<>>
        /\ fetchCalls = <<>>
        /\ retrieveCalls = <<>>
        /\ output = <<>>

C6_Witness == ListingFailed /\ pc = "raised" /\ error = ListingError


\* the label external ids a resource carries
LabelIds(res) == { res.labels.items[n].externalId : n \in DOMAIN res.labels.items }

\* the resource has labels and one of them is in the accepted set
LabelAccepts(filter, res) ==
    ~res.labels.isNone /\ LabelIds(res) \cap filter.labels /= {}

IsLabelFilter(f) == f /= None /\ f.kind = "RelationshipFilter"

Resolved(rel) ==
    SourceRef(rel) \in DOMAIN resources_by_ext_id /\
    TargetRef(rel) \in DOMAIN resources_by_ext_id

\* C7: with a label-membership filter on an endpoint, every yielded edge has
\* at that endpoint a resource with labels, one of which is in the accepted
\* set; and when the label filter is the only filter, a resolved edge is
\* yielded exactly if its resource at that endpoint is such a resource, so
\* absent, empty and disjoint labels all drop the edge.
C7_LabelMembershipFilter ==
    /\ IsLabelFilter(args.sources_filter) =>
          \A j \in DOMAIN output :
             LabelAccepts(args.sources_filter, output[j].source_resource)
    /\ IsLabelFilter(args.targets_filter) =>
          \A j \in DOMAIN output :
             LabelAccepts(args.targets_filter, output[j].target_resource)
    /\ (pc = "done" /\ IsLabelFilter(args.sources_filter)
                    /\ args.targets_filter = None) =>
          \A k \in DOMAIN relations :
             Resolved(relations[k]) =>
                (Emitted(relations[k]) <=>
                   LabelAccepts(args.sources_filter,
                                resources_by_ext_id[SourceRef(relations[k])]))
    /\ (pc = "done" /\ IsLabelFilter(args.targets_filter)
                    /\ args.sources_filter = None) =>
          \A k \in DOMAIN relations :
             Resolved(relations[k]) =>
                (Emitted(relations[k]) <=>
                   LabelAccepts(args.targets_filter,
                                resources_by_ext_id[TargetRef(relations[k])]))

\* a resolved edge dropped for the absent labels of its source, another yielded
C7_Witness ==
    /\ pc = "done"
    /\ IsLabelFilter(args.sources_filter)
    /\ \E k \in DOMAIN relations :
          /\ Resolved(relations[k])
          /\ resources_by_ext_id[SourceRef(relations[k])].labels.isNone
          /\ ~Emitted(relations[k])
    /\ output /= <<>>

\* C8: an omitted filter is replaced by the accept-all filter, which removes
\* no edge: with both omitted every listed edge whose endpoints resolve is
\* yielded, in order; with one omitted, every resolved edge that the other
\* filter accepts is yielded.
C8_OmittedFilterAcceptsAll ==
    /\ (pc \notin {"idle", "created"} /\ args.sources_filter = None) =>
          sources_filter = RelationshipFilterAll
    /\ (pc \notin {"idle", "created"} /\ args.targets_filter = None) =>
          targets_filter = RelationshipFilterAll
    /\ (pc = "done" /\ args.sources_filter = None /\ args.targets_filter = None) =>
          OutputEdges = SelectSeq(relations, Resolved)
    /\ (pc = "done" /\ args.sources_filter = None) =>
          \A k \in DOMAIN relations :
             (Resolved(relations[k]) /\
              IsInside(targets_filter, resources_by_ext_id[TargetRef(relations[k])]))
                => Emitted(relations[k])
    /\ (pc = "done" /\ args.targets_filter = None) =>
          \A k \in DOMAIN relations :
             (Resolved(relations[k]) /\
              IsInside(sources_filter, resources_by_ext_id[SourceRef(relations[k])]))
                => Emitted(relations[k])

C8_Witness ==
    /\ pc = "done"
    /\ args.sources_filter = None
    /\ args.targets_filter = None
    /\ Len(relations) = 2
    /\ Len(output) = 2

\* the endpoints of the yielded edges: <<ref, resource>>
EmittedEndpoints ==
    { <<SourceRef(output[j].relationship), output[j].source_resource>> :
        j \in DOMAIN output } \cup
    { <<TargetRef(output[j].relationship), output[j].target_resource>> :
        j \in DOMAIN output }

\* C9: all yielded endpoints of one ref carry one and the same resource, and
\* it is a resource as a fetch task returned it for that ref, unchanged.
C9_OneInstancePerRef ==
    /\ \A a, b \in EmittedEndpoints : a[1] = b[1] => a[2] = b[2]
    /\ \A a \in EmittedEndpoints : a[2] \in Fetched(a[1])

\* asset X yielded as the source of one edge and the target of another
C9_Witness ==
    /\ pc = "done"
    /\ \E j, l \in DOMAIN output :
          /\ j /= l
          /\ SourceRef(output[j].relationship) = TargetRef(output[l].relationship)

\* the failed task that stands first in the order the futures are waited on
FirstFailed == CHOOSE i \in Failed : \A j \in Failed : i <= j

\* C10: when query raises on a fetch failure, every dispatched task has
\* settled, and the exception raised is the exception, as the task raised it,
\* of the first failed task in the order the outcomes are observed.
C10_FirstObservedFailureRaisedAsIs ==
    (pc = "raised" /\ ~ListingFailed) =>
        /\ Settled = DOMAIN tasks
        /\ collected = Len(tasks)
        /\ Failed /= {}
        /\ error = taskError[FirstFailed]
        /\ Len(exceptions) = Cardinality(Failed)

\* two tasks failed with different exceptions
C10_Witness ==
    /\ pc = "raised"
    /\ \E i, j \in Failed : taskError[i] /= taskError[j]


\* C11: an edge is yielded, and the join index holds anything, only when the
\* listing has returned and every task of the query has settled and been
\* collected; while the query is fetching the index is empty and nothing is
\* yielded, and during the emission the index stays what the join of the
\* tasks' results made it.
C11_NoFetchInFlightAtJoinOrEmission ==
    /\ (pc \in {"emitting", "done"} \/ output /= <<>>
        \/ resources_by_ext_id /= EmptyIndex) =>
          /\ listing /= None
          /\ ~listing.failed
          /\ Settled = DOMAIN tasks
          /\ Running = {}
          /\ collected = Len(tasks)
    /\ pc \in {"created", "fetching"} =>
          resources_by_ext_id = EmptyIndex /\ output = <<>>
    /\ pc \in {"emitting", "done"} =>
          resources_by_ext_id = JoinIndex(EmptyIndex, Join(taskResult))

C11_Witness ==
    /\ pc = "emitting"
    /\ output /= <<>>
    /\ Len(tasks) >= 2
    /\ DOMAIN resources_by_ext_id /= {}


\* C12: never more than max_workers = 5 fetch tasks run at once, and the
\* fetch tasks created and started are never more than the distinct endpoint
\* types of the listed edges, here up to six types.
C12_BoundedConcurrency ==
    /\ Cardinality(Running) <= MaxWorkers
    /\ Len(fetchCalls) <= Len(tasks)
    /\ Len(tasks) <= Cardinality(EndpointTypes)

\* five tasks running and the sixth waiting for a worker
C12_Witness ==
    /\ Cardinality(Running) = MaxWorkers
    /\ \E i \in DOMAIN tasks : taskState[i] = "queued"
    /\ Cardinality(EndpointTypes) > MaxWorkers


\* C13: once the failure of a fetch task has been observed (its exception is
\* in the summary's list), no further fetch task is started.
C13_NoStartAfterObservedFailure ==
    [][exceptions /= <<>> => fetchCalls' = fetchCalls]_vars

\* C13, as the code has it: the failure of a task holds back no other task.
\* While the query is fetching, the oldest queued task can start as soon as a
\* worker is idle, whether or not a failure has been observed; and when query
\* raises a fetch failure every task of the query has been started.
C13_FailureHoldsBackNoTask ==
    /\ \A i \in DOMAIN tasks :
          (/\ pc = "fetching"
           /\ taskState[i] = "queued"
           /\ \A j \in 1..(i - 1) : taskState[j] /= "queued"
           /\ Cardinality(Running) < MaxWorkers) => ENABLED StartTask(i)
    /\ (pc = "raised" /\ ~ListingFailed) => Len(fetchCalls) = Len(tasks)

\* a failure has been observed and a task is still to start
C13_Witness ==
    /\ pc = "fetching"
    /\ exceptions /= <<>>
    /\ \E i \in DOMAIN tasks : taskState[i] = "queued" /\ ENABLED StartTask(i)


ListingReturned == listing /= None /\ ~listing.failed

\* C14: every fetch task, and every retrieval call, has at least one external
\* id and is for a type that has an endpoint ref among the listed edges; when
\* the listing returns no edge there is no task and no call, the query does
\* not raise, and the drained output is empty.
C14_NoFetchWithoutIds ==
    /\ \A i \in DOMAIN tasks :
          tasks[i].external_ids /= <<>> /\ tasks[i].type \in EndpointTypes
    /\ \A n \in DOMAIN fetchCalls :
          fetchCalls[n].external_ids /= <<>> /\ fetchCalls[n].type \in EndpointTypes
    /\ \A n \in DOMAIN retrieveCalls : retrieveCalls[n].external_ids /= <<>>
    /\ (ListingReturned /\ relations = <<>>) =>
          /\ tasks = <<>>
          /\ fetchCalls = <<>>
          /\ retrieveCalls = <<>>
          /\ output = <<>>
          /\ pc \in {"fetching", "emitting", "done"}
          /\ error = None

\* the listing returned no edge and the query is drained
C14_Witness ==
    /\ pc = "done"
    /\ ListingReturned
    /\ relations = <<>>
    /\ output = <<>>


\* the resources the yielded edges carry
EmittedResources ==
    { output[j].source_resource : j \in DOMAIN output } \cup
    { output[j].target_resource : j \in DOMAIN output }

Fetches(ref) ==
    \E n \in DOMAIN fetchCalls :
       fetchCalls[n].type = ref.type /\ ref.external_id \in Range(fetchCalls[n].external_ids)

\* C15: over any sequence of queries on one resolver, the registry and the
\* client reference stay what __init__ made them; every resource in the join
\* index and in the output was returned by a fetch of the current query, none
\* is taken from the index of the query before; every endpoint ref of the
\* current listing is fetched in the current query; and the index and the
\* output are those the current listing, results and filters determine.
C15_NoStateAcrossQueries ==
    /\ self = NewResolver
    /\ \A ref \in DOMAIN resources_by_ext_id :
          /\ resources_by_ext_id[ref].inst[1] = queryNo
          /\ resources_by_ext_id[ref] \notin Range(previous)
          /\ resources_by_ext_id[ref] \in Fetched(ref)
    /\ \A res \in EmittedResources : res.inst[1] = queryNo
    /\ pc \in {"emitting", "done"} =>
          /\ \A ref \in EndpointRefs : Fetches(ref)
          /\ resources_by_ext_id = JoinIndex(EmptyIndex, Join(results))
    /\ pc = "done" => OutputEdges = SelectSeq(relations, ResolvedAndAccepted)

\* a second query drained, resolving again a ref the first query resolved
C15_Witness ==
    /\ queryNo = 2
    /\ pc = "done"
    /\ output /= <<>>
    /\ DOMAIN previous \cap DOMAIN resources_by_ext_id /= {}
    /\ DOMAIN previous \ DOMAIN resources_by_ext_id /= {}


Drained == pc = "done" /\ error = None
FailurePropagated == pc = "raised" /\ error /= None /\ output = <<>>

\* C16: every run of query that has been started ends, and ends either
\* drained, with no exception, or with an exception raised and nothing
\* yielded; it is never in both, and it stays in the final state it reached.
C16_EveryRunTerminates ==
    /\ (pc = "created") ~> (Drained \/ FailurePropagated)
    /\ [](pc = "done" => Drained)
    /\ [](pc = "raised" => FailurePropagated)
    /\ [][(Drained => Drained') /\ (FailurePropagated => FailurePropagated')]_vars

\* a run over three fetch tasks that ended drained with edges yielded
C16_Witness == Drained /\ output /= <<>> /\ Len(tasks) = 3


\* C17: after the call of query and before the first advance of the
\* generator, nothing of the body has run: no listing call, no fetch task or
\* retrieval call, no exception, nothing yielded, the filters as passed; a
\* generator that is never advanced stays so.
C17_CallOnlyCreatesGenerator ==
    pc = "created" =>
        /\ listing = None
        /\ relations = <<>>
        /\ tasks = <<>>
        /\ fetchCalls = <<>>
        /\ retrieveCalls = <<>>
        /\ error = None
        /\ output = <<>>
        /\ sources_filter = args.sources_filter
        /\ targets_filter = args.targets_filter

\* the generator of a second call, not yet advanced
C17_Witness == pc = "created" /\ queryNo = 2 /\ args.sources_filter = None


UnregisteredTypes == { t \in EndpointTypes : t \notin DOMAIN Fetchers }

\* C18: when a listed edge has an endpoint type that is not a key of
\* self.fetchers, the task of that type makes no retrieval call and can only
\* fail, with the KeyError of the registry lookup; the query never reaches
\* the emission, yields nothing, and when it has raised, it has raised the
\* exception of a failed task.
C18_UnregisteredTypeFailsTheQuery ==
    (ListingReturned /\ UnregisteredTypes /= {}) =>
        /\ pc \in {"fetching", "raised"}
        /\ output = <<>>
        /\ \A i \in DOMAIN tasks :
              tasks[i].type \in UnregisteredTypes =>
                 /\ taskState[i] /= "done"
                 /\ taskState[i] = "failed" => taskError[i] = KeyError(tasks[i].type)
        /\ \A n \in DOMAIN retrieveCalls :
              retrieveCalls[n].type \notin UnregisteredTypes
        /\ pc = "raised" =>
              /\ error \in { taskError[i] : i \in Failed }
              /\ \E i \in Failed : taskError[i].kind = "KeyError"

\* the query raised the KeyError although the fetch of another type succeeded
C18_Witness ==
    /\ pc = "raised"
    /\ error = KeyError("model3d")
    /\ \E i \in DOMAIN tasks : taskState[i] = "done" /\ taskResult[i] /= <<>>

\* the task that ran fetch_per_type for a type
TaskOfType(type) == { i \in DOMAIN tasks : tasks[i].type = type }

ReturnedByTaskOf(type, res) ==
    \E i \in TaskOfType(type) :
       \E n \in DOMAIN taskResult[i] : taskResult[i][n] = <<type, res>>

\* C19: the source resource of every yielded edge was returned by the fetch
\* task of the edge's source type, is a resource of that type and has the
\* edge's source external id; likewise the target. So a resource is attached
\* to an endpoint only under its own type and external id.
C19_ResourceMatchesEndpoint ==
    \A j \in DOMAIN output :
       LET rel == output[j].relationship
           src == output[j].source_resource
           tgt == output[j].target_resource
       IN  /\ src.class = rel.source_type
           /\ src.external_id = rel.source_external_id
           /\ ReturnedByTaskOf(rel.source_type, src)
           /\ tgt.class = rel.target_type
           /\ tgt.external_id = rel.target_external_id
           /\ ReturnedByTaskOf(rel.target_type, tgt)

\* an edge yielded whose two endpoints have one external id under two types
C19_Witness ==
    \E j \in DOMAIN output :
       /\ output[j].relationship.source_external_id =
             output[j].relationship.target_external_id
       /\ output[j].relationship.source_type /= output[j].relationship.target_type

====
